---- MODULE Spec2Model ----
(***************************************************************************)
(* A model of the affinealigner package: align_images (align.py) with its  *)
(* helpers _get_reference_index, center_of_mass (compute.py), align_ORB,   *)
(* get_alignment_method and FeatureAlignment.as_xy (featurebased.py).      *)
(*                                                                         *)
(* Conventions.  Indices are 0-based as in Python: the k-th element of a   *)
(* Python sequence s is s[k + 1] here.  Percentiles and threshold_factor   *)
(* are kept as integers (threshold_factor in hundredths, 0.67 -> 67) and   *)
(* all arithmetic on them is exact rational arithmetic on integers.        *)
(* An image is known by its pixel lattice [height, width] and its          *)
(* intensities; intensities are read through RowSum and ColSum, the sums   *)
(* of a row and of a column, which is all center_of_mass reads.            *)
(* The results of the external libraries (ORB keypoints and descriptors,   *)
(* the brute-force matcher, affine2d.estimate) are inputs of the pairwise  *)
(* step, drawn from bounded sets.                                          *)
(***************************************************************************)
EXTENDS Integers, Sequences, FiniteSets, TLC

VARIABLES
    images,            \* tuple(images), align.py:85
    use_percentile,    \* configuration of align_images, align.py:46-51
    background_dia,
    scale_factor,
    alignment_method,
    feature_size,
    threshold_factor,
    pc,                \* position in align_images
    coords,            \* Coordinates.from_image(images[0]), or NoCoords
    points,            \* centroids computed so far, align.py:99
    refidx,            \* reference index, -1 before it is selected
    i,                 \* loop index of align.py:116
    transs,            \* the list under construction, align.py:115
    estimated,         \* the indices _estimate was called for, in call order
    failed,            \* the index whose _estimate raised, -1 if none
    error,             \* the exception that left the call, "" if none
    returned,          \* the tuple returned, <<>> before the return
    desc1, desc2,      \* per-descriptor std-devs of the two descriptor arrays
    matches,           \* the cross-checked match list of bf.match
    alignment,         \* the FeatureAlignment built by align_ORB
    xy,                \* the result of FeatureAlignment.as_xy
    mpc                \* position in the feature matcher

vars == <<images, use_percentile, background_dia, scale_factor,
          alignment_method, feature_size, threshold_factor, pc, coords,
          points, refidx, i, transs, estimated, failed, error, returned,
          desc1, desc2, matches, alignment, xy, mpc>>

configVars == <<use_percentile, background_dia, scale_factor,
                alignment_method, feature_size, threshold_factor>>
matcherVars == <<desc1, desc2, matches, alignment, xy, mpc>>
pipelineVars == <<images, pc, coords, points, refidx, i, transs, estimated,
                  failed, error, returned>>

----------------------------------------------------------------------------
(* Bounds of the model. *)

MaxImages == 3      \* longest input sequence of align_images
MaxPoints == 3      \* longest centroid sequence given to _get_reference_index
MaxPos == 3         \* largest row position given to _get_reference_index
MaxDesc == 2        \* most descriptors per image in the matcher
MaxStd == 2         \* largest per-descriptor std-dev
MaxDist == 2        \* largest descriptor distance of a match
MaxMatches == 2     \* longest match list in the matcher

(* The synthetic images: a bright square block on a dark field, and an
   all-dark image.  Shape and offsets are those of the block scenario. *)
ImageShape == [height |-> 100, width |-> 100]
BlockShape == [size |-> 10, left |-> 20]
BlockOffsets == {10, 50, 90}
Block(top) == [kind |-> "block", top |-> top]
Dark == [kind |-> "dark", top |-> 0]
ImageSet == {Block(t) : t \in BlockOffsets} \cup {Dark}
ScenarioImages == <<Block(10), Block(50), Block(90)>>

PercentileSet == {-1, 0, 15, 50, 100, 101}
ThresholdFactorSet == {-50, 0, 67, 100, 150}
MethodSet == {"ORB", "SIFT"}
BackgroundDiaSet == {7, 3}
ScaleFactorSet == {18, 10}
FeatureSizeSet == {"None", "500"}

SeqsUpTo(S, n) == UNION {[1..k -> S] : k \in 0..n}

Min(a, b) == IF a <= b THEN a ELSE b

----------------------------------------------------------------------------
(* types.py *)

Point(pi, pj) == [i |-> pi, j |-> pj]

\* Coordinates.create: I[r][c] = r and J[r][c] = c over height x width
CoordinatesCreate(width, height) == [height |-> height, width |-> width]

\* Coordinates.from_image: H, W = img.shape[:2]
CoordinatesFromImage(img) ==
    CoordinatesCreate(ImageShape.width, ImageShape.height)

NoCoords == [height |-> 0, width |-> 0]

----------------------------------------------------------------------------
(* compute.py *)

InBlock(img, k, first) ==
    /\ img.kind = "block"
    /\ k >= first
    /\ k < first + BlockShape.size

\* the sum of row r / column c of the image's intensities
RowSum(img, r) == IF InBlock(img, r, img.top) THEN BlockShape.size ELSE 0
ColSum(img, c) ==
    IF InBlock(img, c, BlockShape.left)
    THEN Min(BlockShape.size, ImageShape.height - img.top) ELSE 0

RECURSIVE SumRows(_, _)
SumRows(img, r) ==
    IF r < 0 THEN 0 ELSE RowSum(img, r) + SumRows(img, r - 1)

RECURSIVE SumWeightedRows(_, _)
SumWeightedRows(img, r) ==
    IF r < 0 THEN 0 ELSE r * RowSum(img, r) + SumWeightedRows(img, r - 1)

RECURSIVE SumWeightedCols(_, _)
SumWeightedCols(img, c) ==
    IF c < 0 THEN 0 ELSE c * ColSum(img, c) + SumWeightedCols(img, c - 1)

\* round(): to the nearest integer, halves to the even neighbour
Round(num, den) ==
    LET q == num \div den
        r == num % den
    IN  IF 2 * r < den THEN q
        ELSE IF 2 * r > den THEN q + 1
        ELSE IF q % 2 = 0 THEN q ELSE q + 1

\* center_of_mass(img, coords, as_int=True).  With zero total intensity the
\* quotient is NaN and round() raises ValueError.
CenterOfMass(img, cs) ==
    LET weights == SumRows(img, cs.height - 1)
    IN  IF weights = 0
        THEN [ok |-> FALSE, err |-> "ValueError"]
        ELSE [ok |-> TRUE,
              point |-> Point(Round(SumWeightedRows(img, cs.height - 1), weights),
                              Round(SumWeightedCols(img, cs.width - 1), weights))]

\* center_of_mass tabulated over the images and the grids of the model
CenterOfMassTable ==
    [img \in ImageSet, cs \in {CoordinatesFromImage(im) : im \in ImageSet} |->
        CenterOfMass(img, cs)]

----------------------------------------------------------------------------
(* align.py: _get_reference_index *)

RECURSIVE Insert(_, _)
Insert(s, x) ==
    IF s = <<>> THEN <<x>>
    ELSE IF x <= Head(s) THEN <<x>> \o s
    ELSE <<Head(s)>> \o Insert(Tail(s), x)

RECURSIVE Sort(_)
Sort(s) == IF s = <<>> THEN <<>> ELSE Insert(Sort(Tail(s)), Head(s))

\* math.ceil of the rational num / den, den > 0
Ceil(num, den) == -((-num) \div den)

\* pos.min()
RECURSIVE MinOf(_)
MinOf(s) == IF Len(s) = 1 THEN s[1] ELSE Min(Head(s), MinOf(Tail(s)))

\* np.percentile(pos, p), default (linear) method, as the rational
\* result / 100: the order statistics around the virtual index
\* p / 100 * (n - 1) are interpolated linearly.
Percentile100(pos, p) ==
    LET n == Len(pos)
        a == Sort(pos)
        vidx == p * (n - 1)
        lo == vidx \div 100
        fr == vidx % 100
        hi == Min(lo + 1, n - 1)
    IN  100 * a[lo + 1] + fr * (a[hi + 1] - a[lo + 1])

\* np.where(pos == refpos)[0]
Where(pos, refpos) == {k \in 0..(Len(pos) - 1) : pos[k + 1] = refpos}

\* np.where(pos == refpos)[0][0]; IndexError when nothing matches
FirstWhere(pos, refpos) ==
    LET idx == Where(pos, refpos)
    IN  IF idx = {}
        THEN [ok |-> FALSE, err |-> "IndexError"]
        ELSE [ok |-> TRUE, index |-> CHOOSE k \in idx : \A m \in idx : k <= m]

\* _get_reference_index without the two-position case of align.py:130-131
GetReferenceIndexAlwaysPercentile(pts, p) ==
    LET pos == [k \in 1..Len(pts) |-> pts[k].i]
    IN  IF p < 0 \/ p > 100
        THEN [ok |-> FALSE, err |-> "ValueError"]
        ELSE FirstWhere(pos, Ceil(Percentile100(pos, p), 100))

\* _get_reference_index(points, use_percentile), for a non-empty sequence.
\* np.percentile raises ValueError for a percentile outside [0, 100].
GetReferenceIndex(pts, p) ==
    LET pos == [k \in 1..Len(pts) |-> pts[k].i]
    IN  IF Len(pos) = 2
        THEN FirstWhere(pos, MinOf(pos))
        ELSE IF p < 0 \/ p > 100
             THEN [ok |-> FALSE, err |-> "ValueError"]
             ELSE FirstWhere(pos, Ceil(Percentile100(pos, p), 100))

----------------------------------------------------------------------------
(* featurebased.py *)

\* A match of bf.match: DMatch(queryIdx, trainIdx, distance)
DMatch(q, t, d) == [queryIdx |-> q, trainIdx |-> t, distance |-> d]

\* The keypoints of detectAndCompute: keypoint k of image n has a location
\* of its own.
KeyPoints(n, count) == [k \in 1..count |-> [pt |-> <<10 * k + n, 20 * k + n>>]]

\* the threshold taken from the larger of the two minima
ThresholdMax(d1, d2, tf) ==
    (IF MinOf(d1) >= MinOf(d2) THEN MinOf(d1) ELSE MinOf(d2)) * tf

\* min(des1.std(1).min(), des2.std(1).min()) * threshold_factor, in
\* hundredths (threshold_factor is in hundredths)
Threshold(d1, d2, tf) == Min(MinOf(d1), MinOf(d2)) * tf

\* the comparison made inclusive
AcceptsInclusive(m, threshold) == m.distance * 100 <= threshold

\* m.distance < self.threshold, the threshold in hundredths
Accepts(m, threshold) == m.distance * 100 < threshold

\* align_ORB: a descriptor array is given by the std-dev of each of its
\* descriptors; no keypoint in an image leaves its descriptors None, and
\* des.std fails.
AlignORB(d1, d2, ms, tf) ==
    IF d1 = <<>> \/ d2 = <<>>
    THEN [ok |-> FALSE, err |-> "AttributeError"]
    ELSE [ok |-> TRUE,
          kp1 |-> KeyPoints(1, Len(d1)), desc1 |-> d1,
          kp2 |-> KeyPoints(2, Len(d2)), desc2 |-> d2,
          matches |-> ms,
          threshold |-> Threshold(d1, d2, tf)]

\* the matches the comprehensions of as_xy and as_image keep
Accepted(al) == SelectSeq(al.matches, LAMBDA m : Accepts(m, al.threshold))

\* FeatureAlignment.as_xy: np.stack raises ValueError on an empty list
AsXY(al) ==
    LET acc == Accepted(al)
    IN  IF acc = <<>>
        THEN [ok |-> FALSE, err |-> "ValueError"]
        ELSE [ok |-> TRUE,
              xy1 |-> [k \in 1..Len(acc) |-> al.kp1[acc[k].queryIdx + 1].pt],
              xy2 |-> [k \in 1..Len(acc) |-> al.kp2[acc[k].trainIdx + 1].pt]]

\* get_alignment_method: ValueError unless the method is 'ORB'
GetAlignmentMethod(method) ==
    IF method = "ORB" THEN [ok |-> TRUE] ELSE [ok |-> FALSE, err |-> "ValueError"]

\* The cross-checked match lists over n1 query and n2 train descriptors:
\* in query order, no descriptor of either image matched twice.
MatchSet(n1, n2) ==
    {DMatch(q, t, d) : q \in 0..(n1 - 1), t \in 0..(n2 - 1), d \in 0..MaxDist}

OneToOne(ms) ==
    \A a, b \in 1..Len(ms) :
        a < b => ms[a].queryIdx < ms[b].queryIdx /\ ms[a].trainIdx # ms[b].trainIdx

MatchLists(n1, n2) ==
    {ms \in SeqsUpTo(MatchSet(n1, n2), Min(MaxMatches, Min(n1, n2))) : OneToOne(ms)}

DescArrays(n) == [1..n -> 1..MaxStd]

----------------------------------------------------------------------------
(* align.py: align_images *)

\* affine2d.identity() and the matrix affine2d.estimate(xy_q, xy_r) fits for
\* query image q against reference image r
Identity == [kind |-> "identity", query |-> -1, ref |-> -1]
Estimated(q, r) == [kind |-> "estimate", query |-> q, ref |-> r]

\* the opening checks with the method check first
StartOutcomeMethodFirst(imgs, method) ==
    IF method # "ORB" THEN "badmethod"
    ELSE IF Len(imgs) = 1 THEN "single"
    ELSE "go"

\* the opening checks without the method check of align.py:88-89
StartOutcomeUnchecked(imgs, method) ==
    IF Len(imgs) = 1 THEN "single" ELSE "go"

\* The checks that open align_images, in the order of the code
StartOutcome(imgs, method) ==
    IF Len(imgs) = 1 THEN "single"
    ELSE IF method # "ORB" THEN "badmethod"
    ELSE "go"

\* _estimate(ref, query): subtract_background of both images, the alignment
\* method, as_xy, affine2d.estimate.  fit tells whether affine2d.estimate
\* succeeds on the accepted pairs.
Estimate(d1, d2, ms, tf, fit) ==
    LET al == AlignORB(d1, d2, ms, tf)
    IN  IF ~al.ok THEN [ok |-> FALSE, err |-> al.err]
        ELSE LET pts == AsXY(al)
             IN  IF ~pts.ok THEN [ok |-> FALSE, err |-> pts.err]
                 ELSE IF ~fit THEN [ok |-> FALSE, err |-> "EstimateError"]
                 ELSE [ok |-> TRUE, err |-> ""]

\* the transform put in front of the list
CollectFront(ts, t) == <<t>> \o ts

\* transs.append(trans)
Collect(ts, t) == Append(ts, t)

\* the exception of _estimate swallowed, the loop going on
AfterEstimateSwallow(res) == "loop"

\* An exception of _estimate is not caught: it leaves the loop and the call
AfterEstimate(res) == IF res.ok THEN "loop" ELSE "error"

\* The descriptor arrays and match lists the pairwise step is run on
PairDescs == {<<>>, <<2, 1>>}
PairMatches == {<<>>, <<DMatch(0, 0, 0)>>, <<DMatch(0, 0, 1)>>}

Raise(e) ==
    /\ pc' = "error"
    /\ error' = e

\* align.py:85-97
Start ==
    /\ pc = "start"
    /\ LET o == StartOutcome(images, alignment_method)
       IN  IF o = "single"
           THEN /\ pc' = "done"
                /\ returned' = <<Identity>>
                /\ UNCHANGED <<coords, error>>
           ELSE IF o = "badmethod"
           THEN /\ Raise("ValueError")
                /\ UNCHANGED <<coords, returned>>
           ELSE IF Len(images) = 0
           THEN /\ Raise("IndexError")
                /\ UNCHANGED <<coords, returned>>
           ELSE /\ coords' = CoordinatesFromImage(images[1])
                /\ IF GetAlignmentMethod(alignment_method).ok
                   THEN pc' = "centroids" /\ error' = error
                   ELSE Raise(GetAlignmentMethod(alignment_method).err)
                /\ UNCHANGED returned
    /\ UNCHANGED <<images, points, refidx, i, transs, estimated, failed>>
    /\ UNCHANGED <<configVars, matcherVars>>

\* align.py:99-103, one image of the comprehension
CenterOfMassStep ==
    /\ pc = "centroids"
    /\ LET c == CenterOfMassTable[images[Len(points) + 1], coords]
       IN  IF c.ok
           THEN /\ points' = Append(points, c.point)
                /\ pc' = IF Len(points') = Len(images)
                         THEN "reference" ELSE "centroids"
                /\ error' = error
           ELSE /\ Raise(c.err)
                /\ points' = points
    /\ UNCHANGED <<images, coords, refidx, i, transs, estimated, failed,
                   returned>>
    /\ UNCHANGED <<configVars, matcherVars>>

\* align.py:105-106 and 115
ReferenceStep ==
    /\ pc = "reference"
    /\ LET r == GetReferenceIndex(points, use_percentile)
       IN  IF r.ok
           THEN /\ refidx' = r.index
                /\ pc' = "loop"
                /\ error' = error
           ELSE /\ Raise(r.err)
                /\ refidx' = refidx
    /\ i' = 0
    /\ transs' = <<>>
    /\ UNCHANGED <<images, coords, points, estimated, failed, returned>>
    /\ UNCHANGED <<configVars, matcherVars>>

\* align.py:116-118 and 121, the reference image
LoopReference ==
    /\ pc = "loop"
    /\ i < Len(points)
    /\ i = refidx
    /\ transs' = Collect(transs, Identity)
    /\ i' = i + 1
    /\ UNCHANGED <<images, pc, coords, points, refidx, estimated, failed,
                   error, returned>>
    /\ UNCHANGED <<configVars, matcherVars>>

\* align.py:116, 119-121 with 108-113, any other image
LoopEstimate ==
    /\ pc = "loop"
    /\ i < Len(points)
    /\ i # refidx
    /\ \E d1 \in PairDescs, d2 \in PairDescs, ms \in PairMatches,
          fit \in BOOLEAN :
          LET res == Estimate(d1, d2, ms, threshold_factor, fit)
          IN  /\ estimated' = Append(estimated, i)
              /\ pc' = AfterEstimate(res)
              /\ IF res.ok
                 THEN /\ transs' = Collect(transs, Estimated(i, refidx))
                      /\ UNCHANGED <<failed, error>>
                 ELSE /\ failed' = i
                      /\ error' = res.err
                      /\ transs' = transs
              /\ i' = IF pc' = "loop" THEN i + 1 ELSE i
    /\ UNCHANGED <<images, coords, points, refidx, returned>>
    /\ UNCHANGED <<configVars, matcherVars>>

\* align.py:122
Return ==
    /\ pc = "loop"
    /\ i = Len(points)
    /\ returned' = transs
    /\ pc' = "done"
    /\ UNCHANGED <<images, coords, points, refidx, i, transs, estimated,
                   failed, error>>
    /\ UNCHANGED <<configVars, matcherVars>>

ConfigInit ==
    /\ use_percentile \in PercentileSet
    /\ background_dia \in BackgroundDiaSet
    /\ scale_factor \in ScaleFactorSet
    /\ alignment_method \in MethodSet
    /\ feature_size \in FeatureSizeSet
    /\ threshold_factor \in ThresholdFactorSet

MatcherIdle ==
    /\ desc1 = <<>>
    /\ desc2 = <<>>
    /\ matches = <<>>
    /\ alignment = [ok |-> FALSE, err |-> ""]
    /\ xy = [ok |-> FALSE, err |-> ""]
    /\ mpc = "idle"

LocalsInit ==
    /\ coords = NoCoords
    /\ refidx = -1
    /\ i = 0
    /\ transs = <<>>
    /\ estimated = <<>>
    /\ failed = -1
    /\ error = ""
    /\ returned = <<>>

\* A call of align_images
Init ==
    /\ images \in SeqsUpTo(ImageSet, MaxImages)
    /\ ConfigInit
    /\ pc = "start"
    /\ points = <<>>
    /\ LocalsInit
    /\ MatcherIdle

Next ==
    \/ Start
    \/ CenterOfMassStep
    \/ ReferenceStep
    \/ LoopReference
    \/ LoopEstimate
    \/ Return

Spec == Init /\ [][Next]_vars

----------------------------------------------------------------------------
(* _get_reference_index on its own: the centroid sequence and the
   percentile are drawn from bounded sets *)

PointSeqs == UNION {[1..n -> {Point(r, 0) : r \in 0..MaxPos}] : n \in 1..MaxPoints}

InitRef ==
    /\ images = <<>>
    /\ ConfigInit
    /\ background_dia = 7
    /\ scale_factor = 18
    /\ alignment_method = "ORB"
    /\ feature_size = "None"
    /\ threshold_factor = 67
    /\ pc = "reference"
    /\ points \in PointSeqs
    /\ LocalsInit
    /\ MatcherIdle

NextRef == ReferenceStep

SpecRef == InitRef /\ [][NextRef]_vars

----------------------------------------------------------------------------
(* The feature matcher on its own: align_ORB, then as_xy, on descriptor
   arrays and match lists drawn from bounded sets *)

MatcherFactorSet == {0, 67, 100}

InitMatch ==
    /\ images = <<>>
    /\ use_percentile = 15
    /\ background_dia = 7
    /\ scale_factor = 18
    /\ alignment_method = "ORB"
    /\ feature_size = "None"
    /\ threshold_factor \in MatcherFactorSet
    /\ pc = "idle"
    /\ points = <<>>
    /\ LocalsInit
    /\ \E n1 \in 0..MaxDesc, n2 \in 0..MaxDesc :
          /\ matches \in MatchLists(n1, n2)
          /\ desc1 \in DescArrays(n1)
          /\ desc2 \in DescArrays(n2)
    /\ alignment = [ok |-> FALSE, err |-> ""]
    /\ xy = [ok |-> FALSE, err |-> ""]
    /\ mpc = "start"

\* featurebased.py:39-59
AlignORBStep ==
    /\ mpc = "start"
    /\ alignment' = AlignORB(desc1, desc2, matches, threshold_factor)
    /\ mpc' = IF alignment'.ok THEN "aligned" ELSE "error"
    /\ UNCHANGED <<desc1, desc2, matches, xy>>
    /\ UNCHANGED <<configVars, pipelineVars>>

\* featurebased.py:21-24
AsXYStep ==
    /\ mpc = "aligned"
    /\ xy' = AsXY(alignment)
    /\ mpc' = "done"
    /\ UNCHANGED <<desc1, desc2, matches, alignment>>
    /\ UNCHANGED <<configVars, pipelineVars>>

NextMatch == AlignORBStep \/ AsXYStep

SpecMatch == InitMatch /\ [][NextMatch]_vars

----------------------------------------------------------------------------
(* Properties *)

Range(s) == {s[k] : k \in 1..Len(s)}

\* the non-reference indices below m, in input order
NonRefUpTo(m) == SelectSeq([k \in 1..m |-> k - 1], LAMBDA k : k # refidx)

\* the smallest per-descriptor std-dev over both descriptor arrays
SmallestStd ==
    CHOOSE s \in Range(desc1) \cup Range(desc2) :
        \A t \in Range(desc1) \cup Range(desc2) : s <= t

\* the points as_xy returned for the first image; none when it raised
XY1 == IF xy.ok THEN xy.xy1 ELSE <<>>

\* C1: when align_images returns, the tuple has one transform per input
\* image, the transform at position k is the one of image k, and the one at
\* the reference index is the identity, made without a call of _estimate.
C1_OneTransformPerImage ==
    pc = "done" =>
        /\ Len(returned) = Len(images)
        /\ Len(images) > 1 => refidx \in 0..(Len(images) - 1)
        /\ \A k \in 0..(Len(images) - 1) :
              IF Len(images) = 1 \/ k = refidx
              THEN returned[k + 1] = Identity /\ k \notin Range(estimated)
              ELSE returned[k + 1] = Estimated(k, refidx) /\ k \in Range(estimated)

C1_Witness ==
    /\ pc = "done"
    /\ Len(images) = 3
    /\ refidx = 1
    /\ returned = <<Estimated(0, 1), Identity, Estimated(2, 1)>>

\* C2: a single image ends in the return of one identity transform whatever
\* the configuration, with no reference selected, no centroid computed and
\* no pairwise step run.
C2_SingleImageIdentity ==
    (Len(images) = 1 /\ pc # "start") =>
        /\ pc = "done"
        /\ returned = <<Identity>>
        /\ error = ""
        /\ refidx = -1
        /\ coords = NoCoords
        /\ points = <<>>
        /\ estimated = <<>>

C2_Witness ==
    /\ pc = "done"
    /\ Len(images) = 1
    /\ returned = <<Identity>>
    /\ alignment_method = "SIFT"
    /\ use_percentile = 101
    /\ threshold_factor = 150
    /\ background_dia = 3
    /\ scale_factor = 10
    /\ feature_size = "500"

\* C3 as claimed: every non-empty input with a method other than 'ORB' ends
\* in ValueError before any image processing step has run.
C3_Original ==
    (Len(images) >= 1 /\ alignment_method # "ORB" /\ pc # "start") =>
        /\ pc = "error"
        /\ error = "ValueError"
        /\ coords = NoCoords
        /\ points = <<>>
        /\ estimated = <<>>
        /\ returned = <<>>

\* C3 as amended: every input of two or more images with a method other
\* than 'ORB' ends in ValueError before any image processing step has run
\* (no coordinate grid, no centroid, no pairwise step), and returns nothing.
C3_UnsupportedMethodFailsFast ==
    (Len(images) >= 2 /\ alignment_method # "ORB" /\ pc # "start") =>
        /\ pc = "error"
        /\ error = "ValueError"
        /\ coords = NoCoords
        /\ points = <<>>
        /\ estimated = <<>>
        /\ returned = <<>>

C3_Witness ==
    /\ pc = "error"
    /\ error = "ValueError"
    /\ Len(images) = 3
    /\ alignment_method = "SIFT"
    /\ coords = NoCoords

\* C4 as claimed: with use_percentile outside [0,100] or threshold_factor
\* outside [0,1] the call ends in an error before any per-image computation
\* and never returns transforms.
C4_OutOfRangeRejected ==
    ((use_percentile < 0 \/ use_percentile > 100
        \/ threshold_factor < 0 \/ threshold_factor > 100) /\ pc # "start") =>
        /\ pc = "error"
        /\ points = <<>>
        /\ estimated = <<>>
        /\ returned = <<>>

\* C5 as claimed: for n # 2 positions and a percentile in [0,100],
\* _get_reference_index returns an index in 0..n-1 whose position is the
\* ceiling of the percentile of the positions, the lowest such index.
C5_ReferenceIsCeilPercentile ==
    (pc # "reference" /\ Len(points) # 2
        /\ use_percentile >= 0 /\ use_percentile <= 100) =>
        /\ pc = "loop"
        /\ refidx \in 0..(Len(points) - 1)
        /\ LET pos == [k \in 1..Len(points) |-> points[k].i]
               pct == Percentile100(pos, use_percentile)
           IN  /\ 100 * pos[refidx + 1] >= pct
               /\ 100 * (pos[refidx + 1] - 1) < pct
               /\ \A k \in 0..(refidx - 1) : pos[k + 1] # pos[refidx + 1]

\* C6: for two positions the index returned is the one of the smaller
\* position, 0 when they are equal, whatever the percentile.
C6_TwoImagesPickMinimum ==
    (pc # "reference" /\ Len(points) = 2) =>
        /\ pc = "loop"
        /\ error = ""
        /\ refidx = IF points[1].i <= points[2].i THEN 0 ELSE 1

C6_Witness ==
    /\ pc = "loop"
    /\ Len(points) = 2
    /\ points[2].i < points[1].i
    /\ refidx = 1
    /\ use_percentile = 101

\* C7 as claimed: for the three block images (blocks at rows 10, 50, 90)
\* and use_percentile = 15, the first image is selected as reference and
\* its returned transform is the identity.
C7_ScenarioPicksFirst ==
    (images = ScenarioImages /\ use_percentile = 15
        /\ alignment_method = "ORB" /\ pc \in {"loop", "done", "error"}) =>
        /\ refidx = 0
        /\ pc = "done" => returned[1] = Identity

\* C8 as claimed: with threshold_factor = 1, as_xy accepts every
\* cross-checked match.
C8_Original ==
    (mpc = "done" /\ threshold_factor = 100) => Len(XY1) = Len(matches)

\* C8 as amended: with threshold_factor = 1, as_xy accepts exactly the
\* cross-checked matches whose distance is strictly below the smaller of the
\* two per-image minimum descriptor std-devs, in match order.
C8_FactorOneKeepsBelowStd ==
    (mpc = "done" /\ threshold_factor = 100) =>
        LET keep == SelectSeq(matches, LAMBDA m : m.distance < SmallestStd)
        IN  IF keep = <<>>
            THEN ~xy.ok
            ELSE /\ xy.ok
                 /\ xy.xy1 = [k \in 1..Len(keep) |->
                                 alignment.kp1[keep[k].queryIdx + 1].pt]
                 /\ xy.xy2 = [k \in 1..Len(keep) |->
                                 alignment.kp2[keep[k].trainIdx + 1].pt]

C8_Witness ==
    /\ mpc = "done"
    /\ threshold_factor = 100
    /\ Len(matches) = 2
    /\ Len(XY1) = 1
    /\ desc1 = <<2, 2>>
    /\ desc2 = <<1, 2>>

\* C9: a match is accepted by as_xy if and only if its distance is strictly
\* below min(per-image minimum descriptor std-dev) * threshold_factor; with
\* threshold_factor = 0 no match is accepted.
C9_AcceptedIffBelowThreshold ==
    mpc = "done" =>
        /\ \A k \in 1..Len(matches) :
              (alignment.kp1[matches[k].queryIdx + 1].pt \in Range(XY1))
                 <=> (matches[k].distance * 100 < SmallestStd * threshold_factor)
        /\ threshold_factor = 0 => XY1 = <<>>

C9_Witness ==
    /\ mpc = "done"
    /\ threshold_factor = 0
    /\ Len(matches) = 2
    /\ matches[1].distance = 0
    /\ XY1 = <<>>

\* C10: the non-reference images are given to _estimate in input order,
\* each once; when _estimate fails for image i the call ends in that error,
\* no later image is processed and nothing is returned.
C10_InOrderNoPartialResult ==
    /\ failed = -1 => estimated = NonRefUpTo(i)
    /\ pc \in {"loop", "done"} => failed = -1
    /\ failed # -1 =>
          /\ pc = "error"
          /\ error # ""
          /\ failed # refidx
          /\ estimated = NonRefUpTo(failed + 1)
    /\ pc # "done" => returned = <<>>

C10_Witness ==
    /\ pc = "error"
    /\ Len(images) = 3
    /\ failed = 1
    /\ estimated = <<0, 1>>
    /\ returned = <<>>

====
